---- MODULE Spec2Model ----
(***************************************************************************)
(* Decoder of crypto-conditions and fulfillments (src/src/decoding.rs).    *)
(*                                                                         *)
(* A buffer is a sequence of bytes (0..255).  The decoder tokenizes it     *)
(* with simple_asn1::from_der, wraps the tokens in a Parser and walks them *)
(* by recursive descent.  Every function of decoding.rs is an operator     *)
(* here; the three public entry points are the actions of three           *)
(* specifications whose initial states draw the input buffers from bounded *)
(* sets of encodings.                                                      *)
(***************************************************************************)
EXTENDS Integers, Sequences, FiniteSets, TLC

VARIABLES buf, flags, cond_type, result, pc

vars == <<buf, flags, cond_type, result, pc>>

(***************************************************************************)
(* Result values: R<T> = Result<T, ConditionDecodeError>, plus the abrupt  *)
(* end of the call by a Rust panic, which no `?` catches.                  *)
(***************************************************************************)
Ok(v) == [kind |-> "Ok", val |-> v]

err(s) == [kind |-> "Err", msg |-> s]

Panic(s) == [kind |-> "Panic", msg |-> s]

IsOk(r) == r.kind = "Ok"

IsErr(r) == r.kind = "Err"

IsPanic(r) == r.kind = "Panic"

\* r?, then K of the value: the first failure is the result
Then(r, K(_)) == IF IsOk(r) THEN K(r.val) ELSE r

\* Option<T>
None == <<>>

Some(x) == <<x>>

\* Option::ok_or
ok_or(opt, e) == IF opt = None THEN e ELSE Ok(opt[1])

(***************************************************************************)
(* The tokenizer, simple_asn1::from_der, on the fragment the decoder uses: *)
(* identifier octet (class, constructed bit, tag number, long form with    *)
(* base-128 digits), length octets (short and long form), content.  An     *)
(* element of a class other than Universal becomes                         *)
(* ASN1Block::Unknown(class, constructed, offset, tag, content).  Of the   *)
(* Universal class only OCTET STRING (4) and NULL (5) are modelled, both   *)
(* of which always tokenize; the other Universal types carry checks of     *)
(* their own and are outside the buffers drawn here.                       *)
(***************************************************************************)
ClassUniversal == 0

ClassContextSpecific == 2

\* tags above 255 all fail Parser::lpop's to_u8 alike: the value saturates
TagSaturation == 256

Saturate(v, top) == IF v > top THEN top ELSE v

Incomplete == err("ASN1DecodeErr")

RECURSIVE decode_base127(_, _, _)
decode_base127(i, index, res) ==
    IF index > Len(i) THEN Incomplete
    ELSE IF i[index] < 128
    THEN Ok([tag |-> Saturate(res * 128 + i[index], TagSaturation), next |-> index + 1])
    ELSE decode_base127(i, index + 1,
                        Saturate(res * 128 + (i[index] % 128), TagSaturation))

\* the class of the identifier octet joins the tag number
WithClass(t, tagbyte) == [tag |-> t.tag, class |-> tagbyte \div 64, next |-> t.next]

decode_tag(i, index) ==
    IF i[index] % 32 = 31
    THEN Then(decode_base127(i, index + 1, 0), LAMBDA t : Ok(WithClass(t, i[index])))
    ELSE Ok([tag |-> i[index] % 32, class |-> i[index] \div 64, next |-> index + 1])

\* a length longer than the buffer fails whatever its value: it saturates
RECURSIVE decode_length_long(_, _, _, _)
decode_length_long(i, index, lenlen, res) ==
    IF lenlen = 0 THEN Ok([len |-> res, next |-> index])
    ELSE IF index > Len(i) THEN Incomplete
    ELSE decode_length_long(i, index + 1, lenlen - 1,
                            Saturate(res * 256 + i[index], Len(i) + 1))

decode_length(i, index) ==
    IF index > Len(i) THEN Incomplete
    ELSE IF i[index] >= 128
    THEN IF i[index] - 128 > 8 THEN Incomplete
         ELSE decode_length_long(i, index + 1, i[index] - 128, 0)
    ELSE Ok([len |-> i[index], next |-> index + 1])

\* The tokens of i from position index on, or failure.
RECURSIVE from_der_at(_, _)

\* the element whose identifier is t and whose length is l, and what follows
der_element(i, t, l) ==
    IF l.next + l.len - 1 > Len(i) \/ (t.class = ClassUniversal /\ t.tag \notin {4, 5})
    THEN Incomplete
    ELSE Then(from_der_at(i, l.next + l.len),
              LAMBDA rest : Ok(<<[class |-> t.class, tag |-> t.tag,
                                  body |-> SubSeq(i, l.next, l.next + l.len - 1)]>>
                               \o rest))

from_der_at(i, index) ==
    IF index > Len(i) THEN Ok(<<>>)
    ELSE Then(decode_tag(i, index),
              LAMBDA t : Then(decode_length(i, t.next), LAMBDA l : der_element(i, t, l)))

from_der(data) == from_der_at(data, 1)

(***************************************************************************)
(* Collaborators outside decoding.rs.                                      *)
(***************************************************************************)
\* crate::MIXED_MODE, the flag bit that selects the mixed-mode dialect
MIXED_MODE == 1

\* flags & MIXED_MODE != 0, for a one-bit MIXED_MODE
MixedModeSet(fl) == (fl \div MIXED_MODE) % 2 = 1

\* ConditionType::has_subtypes
has_subtypes(ct) == ct \in {"ThresholdType", "PrefixType"}

\* Condition::to_anon: the compact form; an Anon is its own compact form,
\* and parse_condition yields nothing else
to_anon(c) == c

\* internal::unpack_set: a bit string (first octet: unused-bit count) to the
\* set of the positions of its set bits
unpack_set(b) ==
    {i \in 0..((Len(b) - 1) * 8 - 1) :
        (b[(i \div 8) + 2] \div (2 ^ (7 - (i % 8)))) % 2 = 1}

\* Big-endian comparison a >= b of two byte strings of one length.
RECURSIVE GeBytes(_, _, _)
GeBytes(a, b, i) ==
    IF i > Len(a) THEN TRUE
    ELSE IF a[i] # b[i] THEN a[i] > b[i]
    ELSE GeBytes(a, b, i + 1)

\* the order n of the secp256k1 group, big-endian
CurveOrder ==
    <<255, 255, 255, 255, 255, 255, 255, 255, 255, 255, 255, 255, 255, 255, 255, 254,
      186, 174, 220, 230, 175, 72, 160, 59, 191, 210, 94, 140, 208, 54, 65, 65>>

\* x coordinate of the generator point G of secp256k1, a point of the curve
GeneratorX ==
    <<121, 190, 102, 126, 249, 220, 187, 172, 85, 160, 98, 149, 206, 135, 11, 7,
      2, 155, 252, 219, 45, 206, 40, 217, 89, 242, 129, 91, 22, 248, 23, 152>>

\* the x coordinates known to lie on the curve
CurveX == {GeneratorX}

\* libsecp256k1 PublicKey::parse_slice(p, None), compressed form: 33 bytes,
\* a 2 or 3 and an x coordinate of the curve.  The key is named by its bytes.
PublicKey_parse_slice(p) ==
    IF Len(p) = 33 /\ p[1] \in {2, 3} /\ SubSeq(p, 2, 33) \in CurveX
    THEN Ok(p) ELSE err("InvalidPublicKey")

\* libsecp256k1 Signature::parse_standard_slice: 64 bytes, r and s both below
\* the group order
Signature_parse_standard_slice(p) ==
    IF Len(p) = 64 /\ ~GeBytes(SubSeq(p, 1, 32), CurveOrder, 1)
                   /\ ~GeBytes(SubSeq(p, 33, 64), CurveOrder, 1)
    THEN Ok(p) ELSE err("InvalidSignature")

(***************************************************************************)
(* num_bigint: BigInt::from_signed_bytes_be and ToPrimitive::to_u64.  A    *)
(* BigInt is a sign and a magnitude; the magnitude is its big-endian       *)
(* digits in base 256 without leading zeros (so <<>> is 0).                *)
(***************************************************************************)
RECURSIVE StripZeros(_)
StripZeros(b) == IF b # <<>> /\ b[1] = 0 THEN StripZeros(Tail(b)) ELSE b

\* two's complement negation of a byte string: complement, then add one
RECURSIVE AddOne(_)
AddOne(b) ==
    IF b = <<>> THEN <<>>
    ELSE LET n == Len(b)
         IN IF b[n] = 255 THEN AddOne(SubSeq(b, 1, n - 1)) \o <<0>>
            ELSE SubSeq(b, 1, n - 1) \o <<b[n] + 1>>

from_signed_bytes_be(b) ==
    IF b = <<>> THEN [neg |-> FALSE, mag |-> <<>>]
    ELSE IF b[1] >= 128
    THEN [neg |-> TRUE, mag |-> StripZeros(AddOne([i \in 1..Len(b) |-> 255 - b[i]]))]
    ELSE [neg |-> FALSE, mag |-> StripZeros(b)]

\* the u64 a BigInt holds, if it is one: not negative, at most 8 digits
to_u64(n) == IF ~n.neg /\ Len(n.mag) <= 8 THEN Some(n.mag) ELSE None

(***************************************************************************)
(* condition_type_from_id                                                  *)
(***************************************************************************)
condition_type_from_id(id) ==
    CASE id = 0 -> Ok("PreimageType")
      [] id = 1 -> Ok("PrefixType")
      [] id = 2 -> Ok("ThresholdType")
      [] id = 5 -> Ok("Secp256k1Type")
      [] id = 6 -> Ok("Secp256k1HashType")
      [] id = 15 -> Ok("EvalType")
      [] id = 255 -> Ok("AnonType")
      [] OTHER -> err("Unknown condition type id")

(***************************************************************************)
(* Parser: the tokens not yet consumed.  What takes &mut Parser returns    *)
(* [res, self]: its result and the parser as the call leaves it.           *)
(***************************************************************************)
With(self, res) == [res |-> res, self |-> self]

\* r?, then K of the value and of the parser left; the first failure is the
\* result
Try(r, K(_, _)) == IF IsOk(r.res) THEN K(r.res.val, r.self) ELSE r

from_der_result(asns) == IF IsOk(asns) THEN Ok(asns.val) ELSE err("Invalid ASN data1")

Parser_from_buf(data) ==
    IF data = <<>> THEN Ok(<<>>) ELSE from_der_result(from_der(data))

\* the match of Parser::lpop on the block removed
lpop_block(asn) ==
    IF asn.class = ClassContextSpecific
    THEN IF asn.tag <= 255 THEN Ok([tid |-> asn.tag, buf |-> asn.body])
                           ELSE err("Invalid type id")
    ELSE err("unexpected structure2")

Parser_lpop(self) ==
    IF self = <<>> THEN With(self, err("Expected element"))
    ELSE With(Tail(self), lpop_block(Head(self)))

Parser_container(self, type_id) ==
    Try(Parser_lpop(self),
        LAMBDA e, rest :
            With(rest, IF e.tid = type_id THEN Parser_from_buf(e.buf)
                       ELSE err("Unexpected identifier in ASN")))

Parser_any(self) ==
    Try(Parser_lpop(self),
        LAMBDA e, rest :
            With(rest, Then(Parser_from_buf(e.buf),
                            LAMBDA inner : Ok([tid |-> e.tid, p |-> inner]))))

Parser_buf(self, type_id) ==
    Try(Parser_lpop(self),
        LAMBDA e, rest :
            With(rest, IF e.tid = type_id THEN Ok(e.buf) ELSE err("Wrong type id")))

Parser_end(self) ==
    IF self = <<>> THEN Ok(<<>>) ELSE err("ASN has leftover elements\n")

\* p.end()? on the parser p, then v
EndThen(p, v) == Then(Parser_end(p), LAMBDA u : v)

\* Parser::many: f until the parser is empty
RECURSIVE Parser_many(_, _, _)
Parser_many(self, f(_, _), fl) ==
    IF self = <<>> THEN Ok(<<>>)
    ELSE Try(f(self, fl),
             LAMBDA x, rest :
                 With(rest, Then(Parser_many(rest, f, fl),
                                 LAMBDA more : Ok(<<x>> \o more)))).res

(***************************************************************************)
(* The fingerprint codec.                                                  *)
(***************************************************************************)
\* pad_fingerprint that pads nothing
pad_fingerprint_unpadded(v, ct) == v

pad_fingerprint(v, ct) ==
    IF ct = "Secp256k1HashType"
    THEN IF Len(v) < 32
         THEN [i \in 1..32 |-> IF i <= Len(v) THEN v[i] ELSE 0]
         ELSE v
    ELSE v

\* shrink_fingerprint that cuts every type to 20 bytes
shrink_fingerprint_to_20(v, ct) ==
    IF Len(v) < 20 THEN Panic("range end index 20 out of range")
    ELSE Ok(SubSeq(v, 1, 20))

\* v[0..n] panics when v is shorter than n
shrink_fingerprint(v, ct) ==
    IF ct = "Secp256k1HashType"
    THEN IF Len(v) < 20 THEN Panic("range end index 20 out of range")
         ELSE Ok(SubSeq(v, 1, 20))
    ELSE IF Len(v) < 32 THEN Panic("range end index 32 out of range")
         ELSE Ok(SubSeq(v, 1, 32))

(***************************************************************************)
(* The decoders.                                                           *)
(***************************************************************************)
\* condition_cost with the leaf read as an unsigned integer
condition_cost_unsigned(co) ==
    ok_or(to_u64([neg |-> FALSE, mag |-> StripZeros(co)]), err("Can't decode cost"))

\* the cost of parse_condition, from the bytes of leaf 1
condition_cost(co) ==
    ok_or(to_u64(from_signed_bytes_be(co)), err("Can't decode cost"))

\* condition_subtypes that reads leaf 2 whatever the type
condition_subtypes_always(parser, ct) ==
    Try(Parser_buf(parser, 2), LAMBDA b, rest : With(rest, Ok(unpack_set(b))))

\* the subtypes of parse_condition: leaf 2 when the type has subtypes
condition_subtypes(parser, ct) ==
    IF has_subtypes(ct)
    THEN Try(Parser_buf(parser, 2), LAMBDA b, rest : With(rest, Ok(unpack_set(b))))
    ELSE With(parser, Ok({}))

\* parse_condition from the fingerprint leaf on, on the inner parser
condition_fields(parser, ct) ==
    Try(Parser_buf(parser, 0), LAMBDA fp, p1 :
    Try(Parser_buf(p1, 1), LAMBDA co, p2 :
    Try(With(p2, condition_cost(co)), LAMBDA cost, p3 :
    Try(condition_subtypes(p3, ct), LAMBDA subtypes, p4 :
        With(p4, EndThen(p4, Ok([variant |-> "Anon",
                                 cond_type |-> ct,
                                 fingerprint |-> pad_fingerprint(fp, ct),
                                 cost |-> cost,
                                 subtypes |-> subtypes]))))))).res

parse_condition(top_parser, fl) ==
    Try(Parser_any(top_parser),
        LAMBDA a, top :
            With(top, Then(condition_type_from_id(a.tid),
                           LAMBDA ct : EndThen(top, condition_fields(a.p, ct)))))

parse_preimage(parser) ==
    Try(Parser_buf(parser, 0),
        LAMBDA b, rest : With(rest, Ok([variant |-> "Preimage", preimage |-> b])))

\* the match of parse_secp256k1 on the two parses
secp256k1_of(pk, sig) ==
    IF IsOk(pk) /\ IsOk(sig)
    THEN Ok([variant |-> "Secp256k1", pubkey |-> pk.val, signature |-> Some(sig.val)])
    ELSE err("Bad ASN1 secp256k1")

parse_secp256k1(parser) ==
    Try(Parser_buf(parser, 0), LAMBDA b0, p1 :
    Try(Parser_buf(p1, 1), LAMBDA b1, p2 :
        With(p2, secp256k1_of(PublicKey_parse_slice(b0),
                              Signature_parse_standard_slice(b1)))))

\* the match of parse_secp256k1hash on the two parses
secp256k1hash_of(pk, sig) ==
    IF IsOk(pk) /\ IsOk(sig)
    THEN Ok([variant |-> "Secp256k1Hash", pubkey_hash |-> None,
             pubkey |-> Some(pk.val), signature |-> Some(sig.val)])
    ELSE err("Bad ASN1 secp256k1hash")

parse_secp256k1hash(parser) ==
    Try(Parser_buf(parser, 0), LAMBDA b0, p1 :
    Try(Parser_buf(p1, 1), LAMBDA b1, p2 :
        With(p2, secp256k1hash_of(PublicKey_parse_slice(b0),
                                  Signature_parse_standard_slice(b1)))))

parse_eval(parser) ==
    Try(Parser_buf(parser, 0),
        LAMBDA code, rest : With(rest, EndThen(rest, Ok([variant |-> "Eval", code |-> code]))))

\* threshold_mixed without the check of t against the number of entries
threshold_mixed_unchecked(ffills, conds) ==
    IF Len(ffills) = 0 THEN err("no fulfillments")
    ELSE IF ffills[1].variant # "Preimage"
    THEN err("incorrect mixed mode threshold condition")
    ELSE IF ffills[1].preimage = <<>>
    THEN Panic("index out of bounds: the len is 0 but the index is 0")
    ELSE Ok([variant |-> "Threshold",
             threshold |-> ffills[1].preimage[1] % 65536,
             subconditions |->
                 Tail(ffills) \o [i \in 1..Len(conds) |-> to_anon(conds[i])]])

\* parse_threshold_mixed from the two decoded lists on
threshold_mixed(ffills, conds) ==
    IF Len(ffills) = 0 THEN err("no fulfillments")
    ELSE IF ffills[1].variant # "Preimage"
    THEN err("incorrect mixed mode threshold condition")
    ELSE IF ffills[1].preimage = <<>>
    THEN Panic("index out of bounds: the len is 0 but the index is 0")
    ELSE IF ffills[1].preimage[1] > Len(ffills) - 1 + Len(conds)
    THEN err("incorrect mixed mode threshold value")
    ELSE Ok([variant |-> "Threshold",
             threshold |-> ffills[1].preimage[1] % 65536,
             subconditions |->
                 Tail(ffills) \o [i \in 1..Len(conds) |-> to_anon(conds[i])]])

\* parse_threshold from the two decoded lists on
threshold_standard(ffills, conds) ==
    Ok([variant |-> "Threshold",
        threshold |-> Len(ffills) % 65536,
        subconditions |-> ffills \o conds])

RECURSIVE parse_fulfillment(_, _)

\* what both dialects read first: container 0, container 1, the end
threshold_lists(parser, fl, assemble(_, _)) ==
    Try(Parser_container(parser, 0), LAMBDA c0, p1 :
    Try(With(p1, Parser_many(c0, parse_fulfillment, fl)), LAMBDA ffills, p2 :
    Try(Parser_container(p2, 1), LAMBDA c1, p3 :
    Try(With(p3, Parser_many(c1, parse_condition, fl)), LAMBDA conds, p4 :
        With(p4, EndThen(p4, assemble(ffills, conds)))))))

parse_threshold_mixed(parser, fl) == threshold_lists(parser, fl, threshold_mixed)

parse_threshold(parser, fl) ==
    IF MixedModeSet(fl) THEN parse_threshold_mixed(parser, fl)
    ELSE threshold_lists(parser, fl, threshold_standard)

\* dispatch with tag 6 sent to the secp256k1 decoder
dispatch_hash_as_secp256k1(tid, p, fl) ==
    CASE tid = 0 -> parse_preimage(p)
      [] tid = 2 -> parse_threshold(p, fl)
      [] tid = 5 -> parse_secp256k1(p)
      [] tid = 6 -> parse_secp256k1(p)
      [] tid = 15 -> parse_eval(p)
      [] OTHER -> With(p, err("Invalid Condition ASN"))

\* the match of parse_fulfillment on the outer tag
dispatch(tid, p, fl) ==
    CASE tid = 0 -> parse_preimage(p)
      [] tid = 2 -> parse_threshold(p, fl)
      [] tid = 5 -> parse_secp256k1(p)
      [] tid = 6 -> parse_secp256k1hash(p)
      [] tid = 15 -> parse_eval(p)
      [] OTHER -> With(p, err("Invalid Condition ASN"))

\* parse_fulfillment without p.end() after the inner decoder
parse_fulfillment_no_end(parser, fl) ==
    Try(Parser_any(parser),
        LAMBDA a, rest : With(rest, dispatch(a.tid, a.p, fl).res))

parse_fulfillment(parser, fl) ==
    Try(Parser_any(parser),
        LAMBDA a, rest :
            With(rest, Try(dispatch(a.tid, a.p, fl),
                           LAMBDA o, p : With(p, EndThen(p, Ok(o)))).res))

\* p.end()? and o, after parse_fulfillment has left o and the parser; a
\* panic has ended the call before
end_of_decode(o) == IF IsPanic(o.res) THEN o.res ELSE EndThen(o.self, o.res)

decode_fulfillment(b, fl) ==
    Then(Parser_from_buf(b), LAMBDA p : end_of_decode(parse_fulfillment(p, fl)))

decode_condition(b) ==
    Then(Parser_from_buf(b), LAMBDA p : parse_condition(p, 0).res)

(***************************************************************************)
(* Encodings: the buffers the specifications draw.  DER identifier and     *)
(* length octets as from_der reads them.                                   *)
(***************************************************************************)
TagOctets(class, constructed, tag) ==
    LET lead == class * 64 + (IF constructed THEN 32 ELSE 0)
    IN IF tag < 31 THEN <<lead + tag>>
       ELSE IF tag < 128 THEN <<lead + 31, tag>>
       ELSE <<lead + 31, 128 + (tag \div 128), tag % 128>>

LenOctets(n) ==
    IF n < 128 THEN <<n>>
    ELSE IF n < 256 THEN <<129, n>>
    ELSE <<130, n \div 256, n % 256>>

Element(class, constructed, tag, content) ==
    TagOctets(class, constructed, tag) \o LenOctets(Len(content)) \o content

\* a context-specific primitive element: a leaf
Leaf(tag, content) == Element(ClassContextSpecific, FALSE, tag, content)

\* a context-specific constructed element: a container
Cons(tag, content) == Element(ClassContextSpecific, TRUE, tag, content)

RECURSIVE Concat(_)
Concat(ss) == IF ss = <<>> THEN <<>> ELSE Head(ss) \o Concat(Tail(ss))

SeqsUpTo(S, n) == UNION {[1..k -> S] : k \in 0..n}

\* bounds of the buffers drawn
MaxFfills == 2

MaxConds == 3

MaxThreshold == 3

\* sample contents
PkGood == <<2>> \o GeneratorX

PkBad == <<2>> \o [i \in 1..32 |-> 0]

SigGood == [i \in 1..64 |-> 1]

SigBad == [i \in 1..64 |-> 255]

\* a byte string that does not tokenize (an identifier without a length)
RawBytes == <<255>>

\* a Universal NULL, which tokenizes to a block that is no tagged element
NullElement == Element(ClassUniversal, FALSE, 5, <<>>)

ExtraLeaf == Leaf(0, <<7>>)

\* fulfillment encodings
EncPreimage(b) == Cons(0, Leaf(0, b))

EncEval(b) == Cons(15, Leaf(0, b))

EncSecp256k1(pk, sig) == Cons(5, Leaf(0, pk) \o Leaf(1, sig))

EncSecp256k1Hash(pk, sig) == Cons(6, Leaf(0, pk) \o Leaf(1, sig))

EncThreshold(ffs, conds) == Cons(2, Cons(0, Concat(ffs)) \o Cons(1, Concat(conds)))

\* compact condition encodings
EncCond(tid, fp, cost) == Cons(tid, Leaf(0, fp) \o Leaf(1, cost))

EncCondSub(tid, fp, cost, sub) == Cons(tid, Leaf(0, fp) \o Leaf(1, cost) \o Leaf(2, sub))

(***************************************************************************)
(* The buffers decode_fulfillment is given.                                *)
(***************************************************************************)
\* two valid compact conditions and one whose cost is negative
CondA == EncCond(6, [i \in 1..20 |-> 9], <<5>>)

CondB == EncCondSub(2, [i \in 1..32 |-> 8], <<0, 255>>, <<0, 160>>)

CondBad == EncCond(0, [i \in 1..32 |-> 7], <<255>>)

CondSeqs ==
    SeqsUpTo({CondA, CondB}, MaxConds) \cup {<<CondBad>>, <<CondA, CondBad>>}

\* what may stand first in container 0: a mixed-mode sentinel (a Preimage of
\* no byte, of one byte 0..MaxThreshold, of two bytes) or another element
Sentinels ==
    {EncPreimage(<<>>), EncPreimage(<<1, 9>>)}
        \cup {EncPreimage(<<t>>) : t \in 0..MaxThreshold}

FlatFirst ==
    Sentinels \cup {EncEval(<<3>>), EncSecp256k1Hash(PkGood, SigGood),
                    Cons(1, <<>>), Cons(3, RawBytes)}

FlatTail == {EncPreimage(<<1>>), EncEval(<<3>>), Cons(1, <<>>)}

FlatFfSeqs ==
    {<<>>} \cup {<<f>> \o r : f \in FlatFirst, r \in SeqsUpTo(FlatTail, MaxFfills)}

\* thresholds nested in a threshold's container 0
InnerThresholds ==
    {EncThreshold(f, c) :
        f \in SeqsUpTo({EncPreimage(<<0>>), EncPreimage(<<1>>), EncPreimage(<<2>>),
                        EncEval(<<3>>)}, MaxFfills),
        c \in SeqsUpTo({CondA}, 1)}

NestedFfSeqs ==
    {s \o <<t>> \o r :
        s \in {<<>>, <<EncPreimage(<<0>>)>>, <<EncPreimage(<<1>>)>>, <<EncPreimage(<<2>>)>>},
        t \in InnerThresholds,
        r \in {<<>>, <<EncPreimage(<<1>>)>>}}

\* a threshold as it should be and, when container 1 holds at most one
\* condition: followed by another element; with container 1 left out; with
\* a third element after container 1; with the two containers exchanged
ThresholdBufs(ffs, conds) ==
    LET c0 == Cons(0, Concat(ffs))
        c1 == Cons(1, Concat(conds))
    IN {Cons(2, c0 \o c1)}
        \cup IF Len(conds) > 1 THEN {}
             ELSE {Cons(2, c0 \o c1) \o ExtraLeaf,
                   Cons(2, c0 \o c1) \o NullElement,
                   Cons(2, c0),
                   Cons(2, c0 \o c1 \o ExtraLeaf),
                   Cons(2, c1 \o c0)}

\* the bodies of the elements that are no threshold
LeafBodies ==
    {<<>>, RawBytes, Leaf(1, <<7>>), Leaf(0, PkGood) \o Leaf(0, SigGood)}
        \cup {Leaf(0, b) : b \in {<<>>, <<7>>, PkGood}}
        \cup {Leaf(0, pk) \o Leaf(1, sig) : pk \in {PkGood, PkBad}, sig \in {SigGood, SigBad}}

\* outer tags: the five fulfillment types, Prefix (1), Anon (255), tags of
\* no type (3, 30, 31) and one that is no u8 (300)
OuterTags == {0, 1, 2, 3, 5, 6, 15, 30, 31, 255, 300}

SimpleElements ==
    {Cons(t, b \o x) : t \in OuterTags, b \in LeafBodies, x \in {<<>>, ExtraLeaf, NullElement}}
        \cup {<<>>, RawBytes, NullElement, Element(1, TRUE, 0, Leaf(0, <<7>>))}

\* what follows the top-level element
TopExtras == {<<>>, ExtraLeaf, NullElement}

FlagSet == {0, MIXED_MODE, 2 * MIXED_MODE, 3 * MIXED_MODE}

NoResult == [kind |-> "None"]

Init ==
    /\ flags \in FlagSet
    /\ cond_type = "AnonType"
    /\ result = NoResult
    /\ pc = "start"
    /\ \/ \E e \in SimpleElements, x \in TopExtras : buf = e \o x
       \/ \E ffs \in FlatFfSeqs, conds \in CondSeqs : buf \in ThresholdBufs(ffs, conds)
       \/ \E ffs \in NestedFfSeqs, conds \in SeqsUpTo({CondA, CondB}, 1) :
            buf = EncThreshold(ffs, conds)

\* decode_fulfillment(buf, flags)
DecodeFulfillment ==
    /\ pc = "start"
    /\ result' = decode_fulfillment(buf, flags)
    /\ pc' = "decode_fulfillment"
    /\ UNCHANGED <<buf, flags, cond_type>>

Next == DecodeFulfillment

Spec == Init /\ [][Next]_vars

(***************************************************************************)
(* Reading a buffer's structure, for the statements below.                 *)
(***************************************************************************)
Tokenizes(b) == b = <<>> \/ IsOk(from_der(b))

Tokens(b) == IF b = <<>> THEN <<>> ELSE from_der(b).val

\* a context-specific element whose tag is a u8
IsTagged(e) == e.class = ClassContextSpecific /\ e.tag <= 255

\* one tagged element of tag t whose content tokenizes
IsSingle(b, t) ==
    /\ Tokenizes(b)
    /\ Len(Tokens(b)) = 1
    /\ IsTagged(Tokens(b)[1])
    /\ Tokens(b)[1].tag = t
    /\ Tokenizes(Tokens(b)[1].body)

\* the elements inside the one element of b
Inner(b) == Tokens(Tokens(b)[1].body)

\* a threshold fulfillment: outer tag 2 around container 0 and container 1
ThresholdShape(b) ==
    /\ IsSingle(b, 2)
    /\ Len(Inner(b)) = 2
    /\ IsTagged(Inner(b)[1]) /\ Inner(b)[1].tag = 0 /\ Tokenizes(Inner(b)[1].body)
    /\ IsTagged(Inner(b)[2]) /\ Inner(b)[2].tag = 1 /\ Tokenizes(Inner(b)[2].body)

Container0(b) == Tokens(Inner(b)[1].body)

Container1(b) == Tokens(Inner(b)[2].body)

\* one element decoded on its own
FfOf(e, fl) == parse_fulfillment(<<e>>, fl).res

CondOf(e) == parse_condition(<<e>>, 0).res

AllValid(ffs, conds, fl) ==
    /\ \A i \in 1..Len(ffs) : IsOk(FfOf(ffs[i], fl))
    /\ \A j \in 1..Len(conds) : IsOk(CondOf(conds[j]))

\* the decoded fulfillments, in order, then the decoded conditions, in order
Merged(ffs, conds, fl) ==
    [i \in 1..(Len(ffs) + Len(conds)) |->
        IF i <= Len(ffs) THEN FfOf(ffs[i], fl).val ELSE CondOf(conds[i - Len(ffs)]).val]

Done == pc = "decode_fulfillment"

(***************************************************************************)
(* C1.  Standard dialect: a threshold fulfillment whose container 0 holds  *)
(* n valid fulfillments and whose container 1 holds k valid compact        *)
(* conditions decodes to Threshold with threshold = n and subconditions =  *)
(* the n fulfillments in wire order, then the k conditions in wire order.  *)
(***************************************************************************)
C1_StandardThreshold ==
    (/\ Done
     /\ ~MixedModeSet(flags)
     /\ ThresholdShape(buf)
     /\ AllValid(Container0(buf), Container1(buf), flags))
    => /\ IsOk(result)
       /\ result.val.variant = "Threshold"
       /\ result.val.threshold = Len(Container0(buf))
       /\ result.val.subconditions = Merged(Container0(buf), Container1(buf), flags)

(***************************************************************************)
(* C2.  Mixed-mode dialect: container 0 holds a sentinel Preimage whose    *)
(* first byte is t, then m valid fulfillments F; container 1 holds k valid *)
(* compact conditions C.  The result is Threshold with threshold = t and   *)
(* subconditions = F then C exactly when t <= m + k, and the error         *)
(* "incorrect mixed mode threshold value" exactly when t > m + k.          *)
(***************************************************************************)
HasSentinel(b, fl) ==
    /\ ThresholdShape(b)
    /\ Len(Container0(b)) >= 1
    /\ IsOk(FfOf(Container0(b)[1], fl))
    /\ FfOf(Container0(b)[1], fl).val.variant = "Preimage"
    /\ Len(FfOf(Container0(b)[1], fl).val.preimage) >= 1

SentinelValue(b, fl) == FfOf(Container0(b)[1], fl).val.preimage[1]

C2_MixedThreshold ==
    (/\ Done
     /\ MixedModeSet(flags)
     /\ HasSentinel(buf, flags)
     /\ AllValid(Tail(Container0(buf)), Container1(buf), flags))
    => LET t == SentinelValue(buf, flags)
           F == Tail(Container0(buf))
           C == Container1(buf)
       IN IF t <= Len(F) + Len(C)
          THEN /\ IsOk(result)
               /\ result.val.variant = "Threshold"
               /\ result.val.threshold = t
               /\ result.val.subconditions = Merged(F, C, flags)
          ELSE result = err("incorrect mixed mode threshold value")

(***************************************************************************)
(* C3.  decode_fulfillment is total: for every buffer and every flags word *)
(* the call returns a Condition or a ConditionDecodeError; it never ends   *)
(* in a panic.                                                             *)
(***************************************************************************)
C3_NeverPanics == Done => (IsOk(result) \/ IsErr(result))

(***************************************************************************)
(* C4.  Trailing data is never ignored: a valid fulfillment encoding with  *)
(* one more element after the top-level element, or after the last field   *)
(* of the fulfillment's body, makes decode_fulfillment fail with the        *)
(* leftover-elements error.                                                *)
(***************************************************************************)
\* the position after the element that starts at index
ElementEnd(b, index) ==
    LET l == decode_length(b, decode_tag(b, index).val.next).val IN l.next + l.len

\* where the last element of a tokenizing, non-empty b starts
RECURSIVE LastStart(_, _)
LastStart(b, index) ==
    IF ElementEnd(b, index) > Len(b) THEN index ELSE LastStart(b, ElementEnd(b, index))

WithoutLast(b) == SubSeq(b, 1, LastStart(b, 1) - 1)

\* an encoding decode_fulfillment accepts, or a threshold of valid parts
\* (with, in mixed mode, a sentinel in range)
ValidEncoding(b, fl) ==
    \/ IsOk(decode_fulfillment(b, fl))
    \/ /\ ~MixedModeSet(fl)
       /\ ThresholdShape(b)
       /\ AllValid(Container0(b), Container1(b), fl)
    \/ /\ MixedModeSet(fl)
       /\ HasSentinel(b, fl)
       /\ AllValid(Tail(Container0(b)), Container1(b), fl)
       /\ SentinelValue(b, fl) <= Len(Container0(b)) - 1 + Len(Container1(b))

Leftover == err("ASN has leftover elements\n")

ExtraAtTop(b, fl) ==
    /\ Tokenizes(b)
    /\ Len(Tokens(b)) = 2
    /\ ValidEncoding(WithoutLast(b), fl)

ExtraInBody(b, fl) ==
    /\ Tokenizes(b)
    /\ Len(Tokens(b)) = 1
    /\ IsTagged(Tokens(b)[1])
    /\ Tokenizes(Tokens(b)[1].body)
    /\ Len(Inner(b)) >= 1
    /\ ValidEncoding(Cons(Tokens(b)[1].tag, WithoutLast(Tokens(b)[1].body)), fl)

C4_TrailingRejected ==
    (Done /\ (ExtraAtTop(buf, flags) \/ ExtraInBody(buf, flags))) => result = Leftover

\* a secp256k1 fulfillment with a third element after the signature
C4_Witness ==
    /\ Done
    /\ ExtraInBody(buf, flags)
    /\ Tokens(buf)[1].tag = 5
    /\ Len(Inner(buf)) = 3
    /\ result = Leftover

(***************************************************************************)
(* C6.  Every Threshold decode_fulfillment produces, at every depth and    *)
(* in both dialects, has threshold <= Len(subconditions).                  *)
(***************************************************************************)
RECURSIVE ThresholdsInRange(_)
ThresholdsInRange(c) ==
    c.variant = "Threshold" =>
        /\ c.threshold <= Len(c.subconditions)
        /\ \A i \in 1..Len(c.subconditions) : ThresholdsInRange(c.subconditions[i])

C6_ThresholdInRange == (Done /\ IsOk(result)) => ThresholdsInRange(result.val)

\* mixed mode: a threshold that holds a threshold, the outer one's count at
\* its limit
C6_Witness ==
    /\ Done
    /\ MixedModeSet(flags)
    /\ IsOk(result)
    /\ result.val.variant = "Threshold"
    /\ result.val.threshold = Len(result.val.subconditions)
    /\ \E i \in 1..Len(result.val.subconditions) :
          /\ result.val.subconditions[i].variant = "Threshold"
          /\ result.val.subconditions[i].threshold >= 1

(***************************************************************************)
(* C7.  decode_fulfillment dispatches on the outer element's tag: 0 yields *)
(* a Preimage, 2 a Threshold, 5 a Secp256k1, 6 a Secp256k1Hash with        *)
(* pubkey_hash unset and pubkey and signature set, 15 an Eval; every other *)
(* tag in 0..255 fails with "Invalid Condition ASN", at the top level and  *)
(* for a fulfillment nested in a threshold's container 0.                  *)
(***************************************************************************)
FulfillmentTags == {0, 2, 5, 6, 15}

VariantOf(tid) ==
    CASE tid = 0 -> "Preimage"
      [] tid = 2 -> "Threshold"
      [] tid = 5 -> "Secp256k1"
      [] tid = 6 -> "Secp256k1Hash"
      [] tid = 15 -> "Eval"
      [] OTHER -> "none"

\* the buffer is one tagged element
OneTagged(b) == Tokenizes(b) /\ Len(Tokens(b)) = 1 /\ IsTagged(Tokens(b)[1])

\* what a successful decode of an element of tag tid returns
VariantMatches(c, tid) ==
    /\ tid \in FulfillmentTags
    /\ c.variant = VariantOf(tid)
    /\ tid = 6 => (c.pubkey_hash = None /\ c.pubkey # None /\ c.signature # None)

\* element j of container 0 has a tag of no fulfillment type, and the
\* elements before it are valid fulfillments
NestedOtherTag(b, fl, j) ==
    /\ IsTagged(Container0(b)[j])
    /\ Container0(b)[j].tag \notin FulfillmentTags
    /\ \A i \in 1..(j - 1) : IsOk(FfOf(Container0(b)[i], fl))

\* the statement as the claim makes it: the error of an element of another
\* tag is "Invalid Condition ASN" whatever the element holds
C7_Dispatch ==
    (Done /\ OneTagged(buf)) =>
        /\ IsOk(result) => VariantMatches(result.val, Tokens(buf)[1].tag)
        /\ Tokens(buf)[1].tag \notin FulfillmentTags
              => result = err("Invalid Condition ASN")
        /\ ThresholdShape(buf) =>
              \A j \in 1..Len(Container0(buf)) :
                  NestedOtherTag(buf, flags, j) => result = err("Invalid Condition ASN")

\* the error of an element of another tag: its content is tokenized before
\* the tag is looked at
OtherTagError(e) ==
    IF Tokenizes(e.body) THEN err("Invalid Condition ASN") ELSE err("Invalid ASN data1")

\* amended: "Invalid Condition ASN" when the element's content tokenizes,
\* "Invalid ASN data1" when it does not
C7_DispatchAmended ==
    (Done /\ OneTagged(buf)) =>
        /\ IsOk(result) => VariantMatches(result.val, Tokens(buf)[1].tag)
        /\ Tokens(buf)[1].tag \notin FulfillmentTags
              => result = OtherTagError(Tokens(buf)[1])
        /\ ThresholdShape(buf) =>
              \A j \in 1..Len(Container0(buf)) :
                  NestedOtherTag(buf, flags, j)
                      => result = OtherTagError(Container0(buf)[j])

\* an element of another tag after a valid fulfillment in container 0
C7_Witness ==
    /\ Done
    /\ ThresholdShape(buf)
    /\ \E j \in 2..Len(Container0(buf)) : NestedOtherTag(buf, flags, j)
    /\ result = err("Invalid Condition ASN")

(***************************************************************************)
(* The buffers decode_condition is given, and the same conditions in       *)
(* container 1 of a threshold fulfillment.                                 *)
(***************************************************************************)
MaxCostLen == 3

MaxFpLen == 33

\* cost leaves: every string of at most MaxCostLen of these bytes, and the
\* strings around the ends of the u64 range
CostBytes == {0, 1, 127, 128, 255}

Repeat(x, n) == [i \in 1..n |-> x]

LongCosts ==
    {Repeat(255, 8), <<127>> \o Repeat(255, 7), <<128>> \o Repeat(0, 7),
     <<0>> \o Repeat(255, 8), <<1>> \o Repeat(0, 8), <<0, 128>> \o Repeat(0, 7),
     <<255>> \o Repeat(0, 8), <<0, 0>> \o Repeat(255, 8), <<0, 1>> \o Repeat(0, 8)}

Costs == SeqsUpTo(CostBytes, MaxCostLen) \cup LongCosts

\* the type ids: the seven types and one id of no type
TypeIds == {0, 1, 2, 3, 5, 6, 15, 255}

\* what may follow the cost leaf
AfterCost == {<<>>, Leaf(2, <<0, 160>>), Leaf(2, <<0, 160>>) \o ExtraLeaf, ExtraLeaf}

CostConditions ==
    {Cons(t, Leaf(0, Repeat(9, 32)) \o Leaf(1, c) \o x) :
        t \in {0, 2}, c \in Costs, x \in {<<>>, Leaf(2, <<0, 160>>)}}

FingerprintConditions ==
    {Cons(t, Leaf(0, Repeat(9, n)) \o Leaf(1, <<5>>) \o x) :
        t \in TypeIds, n \in 0..MaxFpLen, x \in AfterCost}

MalformedConditions ==
    {<<>>, RawBytes, NullElement, CondA \o CondA, CondA \o NullElement}
        \cup {Cons(t, b) :
                t \in {0, 2, 6},
                b \in {<<>>, RawBytes, Leaf(0, <<9>>), Leaf(1, <<5>>), NullElement,
                       Leaf(0, <<9>>) \o Leaf(0, <<5>>), Leaf(1, <<5>>) \o Leaf(0, <<9>>),
                       Leaf(0, <<9>>) \o Leaf(1, <<5>>) \o Leaf(3, <<0>>)}}

ConditionBufs == CostConditions \cup FingerprintConditions \cup MalformedConditions

InitCondition ==
    /\ flags \in {0, MIXED_MODE}
    /\ cond_type = "AnonType"
    /\ result = NoResult
    /\ pc = "start"
    /\ \E c \in ConditionBufs :
          \/ buf = c /\ flags = 0
          \/ buf = EncThreshold(<<EncPreimage(<<1>>)>>, <<c>>)

\* decode_condition(buf)
DecodeCondition ==
    /\ pc = "start"
    /\ result' = decode_condition(buf)
    /\ pc' = "decode_condition"
    /\ UNCHANGED <<buf, flags, cond_type>>

NextCondition == DecodeCondition \/ DecodeFulfillment

SpecCondition == InitCondition /\ [][NextCondition]_vars

DoneCondition == pc = "decode_condition"

\* the type of a type id
TypeOfId(id) ==
    CASE id = 0 -> "PreimageType"
      [] id = 1 -> "PrefixType"
      [] id = 2 -> "ThresholdType"
      [] id = 5 -> "Secp256k1Type"
      [] id = 6 -> "Secp256k1HashType"
      [] id = 15 -> "EvalType"
      [] id = 255 -> "AnonType"
      [] OTHER -> "none"

\* one tagged element of a known type whose content tokenizes
ConditionShape(b) ==
    /\ OneTagged(b)
    /\ TypeOfId(Tokens(b)[1].tag) # "none"
    /\ Tokenizes(Tokens(b)[1].body)

\* leaf i of the body is a tagged element of tag t
HasLeaf(b, i, t) ==
    /\ Len(Inner(b)) >= i
    /\ IsTagged(Inner(b)[i])
    /\ Inner(b)[i].tag = t

(***************************************************************************)
(* C5.  Every Anon decode_condition returns, and every Anon inside a       *)
(* decoded Threshold, has a fingerprint of the fixed width of its type: 20 *)
(* bytes for Secp256k1Hash, 32 for every other type, whatever the length   *)
(* of the fingerprint leaf on the wire.                                    *)
(***************************************************************************)
FixedWidth(ct) == IF ct = "Secp256k1HashType" THEN 20 ELSE 32

RECURSIVE AnonsHaveFixedWidth(_)
AnonsHaveFixedWidth(c) ==
    /\ c.variant = "Anon" => Len(c.fingerprint) = FixedWidth(c.cond_type)
    /\ c.variant = "Threshold" =>
          \A i \in 1..Len(c.subconditions) : AnonsHaveFixedWidth(c.subconditions[i])

\* the statement as the claim makes it
C5_FixedWidth ==
    ((DoneCondition \/ Done) /\ IsOk(result)) => AnonsHaveFixedWidth(result.val)

\* v, then zero bytes up to 32 when v is shorter and the type Secp256k1Hash
PaddedWire(v, ct) ==
    IF ct = "Secp256k1HashType" /\ Len(v) < 32 THEN v \o [i \in 1..(32 - Len(v)) |-> 0]
    ELSE v

\* amended: the fingerprint is the wire leaf, zero-padded to 32 bytes when
\* the type is Secp256k1Hash and the leaf is shorter; its length is
\* max(32, n) for Secp256k1Hash and n for every other type, n the length of
\* the leaf
C5_PaddedWire ==
    /\ (DoneCondition /\ IsOk(result)) =>
          /\ result.val.fingerprint = PaddedWire(Inner(buf)[1].body, result.val.cond_type)
          /\ Len(result.val.fingerprint) =
                IF result.val.cond_type = "Secp256k1HashType"
                THEN (IF Len(Inner(buf)[1].body) < 32 THEN 32 ELSE Len(Inner(buf)[1].body))
                ELSE Len(Inner(buf)[1].body)
    /\ (Done /\ IsOk(result) /\ ThresholdShape(buf) /\ Len(Container1(buf)) = 1) =>
          LET anon == result.val.subconditions[Len(result.val.subconditions)]
          IN /\ anon.variant = "Anon"
             /\ anon.fingerprint =
                   PaddedWire(Tokens(Container1(buf)[1].body)[1].body, anon.cond_type)

\* a Secp256k1Hash condition of 20 bytes on the wire, in a threshold: 32 bytes
C5_Witness ==
    /\ Done
    /\ IsOk(result)
    /\ ThresholdShape(buf)
    /\ Len(Container1(buf)) = 1
    /\ Len(Tokens(Container1(buf)[1].body)[1].body) = 20
    /\ result.val.subconditions[Len(result.val.subconditions)].cond_type
          = "Secp256k1HashType"
    /\ Len(result.val.subconditions[Len(result.val.subconditions)].fingerprint) = 32

(***************************************************************************)
(* C8.  decode_condition reads the subtypes leaf (tag 2) exactly when the  *)
(* type has subtypes (Threshold, Prefix): for such a type a body without   *)
(* leaf 2 fails; for every other type the result has no subtypes and a     *)
(* body with a third leaf fails with the leftover-elements error.  A       *)
(* result is always an Anon of the type of the outer tag.                  *)
(***************************************************************************)
C8_SubtypesLeaf ==
    /\ (DoneCondition /\ IsOk(result)) =>
          /\ ConditionShape(buf)
          /\ result.val.variant = "Anon"
          /\ result.val.cond_type = TypeOfId(Tokens(buf)[1].tag)
    /\ (DoneCondition /\ ConditionShape(buf)) =>
          IF TypeOfId(Tokens(buf)[1].tag) \in {"ThresholdType", "PrefixType"}
          THEN /\ ~HasLeaf(buf, 3, 2) => ~IsOk(result)
               /\ IsOk(result) =>
                     /\ Len(Inner(buf)) = 3
                     /\ result.val.subtypes = unpack_set(Inner(buf)[3].body)
          ELSE /\ IsOk(result) => (result.val.subtypes = {} /\ Len(Inner(buf)) = 2)
               /\ (/\ Len(Inner(buf)) = 3
                   /\ IsOk(decode_condition(Cons(Tokens(buf)[1].tag,
                                                 WithoutLast(Tokens(buf)[1].body)))))
                     => result = Leftover

\* a Secp256k1Hash condition with a subtypes leaf after the cost
C8_Witness ==
    /\ DoneCondition
    /\ ConditionShape(buf)
    /\ Tokens(buf)[1].tag = 6
    /\ HasLeaf(buf, 3, 2)
    /\ Len(Inner(buf)) = 3
    /\ result = Leftover

(***************************************************************************)
(* C9.  The cost leaf (tag 1) is a big-endian two's-complement integer c:  *)
(* if 0 <= c <= 2^64 - 1 the Anon returned has cost = c; if c < 0 or       *)
(* c > 2^64 - 1 the call fails with "Can't decode cost".                   *)
(***************************************************************************)
\* the integer a byte string of at most 4 bytes stands for, as a number
RECURSIVE SignedValue(_, _)
SignedValue(c, n) ==
    IF n = 0 THEN 0
    ELSE IF n = 1 THEN (IF c[1] >= 128 THEN c[1] - 256 ELSE c[1])
    ELSE SignedValue(c, n - 1) * 256 + c[n]

\* the number a cost of at most 4 digits is
RECURSIVE DigitsValue(_, _)
DigitsValue(d, n) == IF n = 0 THEN 0 ELSE DigitsValue(d, n - 1) * 256 + d[n]

\* how many zero bytes lead c
RECURSIVE LeadingZeros(_)
LeadingZeros(c) == IF c # <<>> /\ c[1] = 0 THEN 1 + LeadingZeros(Tail(c)) ELSE 0

CostError == err("Can't decode cost")

\* the body reaches the cost leaf
CostLeafRead(b) == ConditionShape(b) /\ HasLeaf(b, 1, 0) /\ HasLeaf(b, 2, 1)

CostLeaf(b) == Inner(b)[2].body

\* c is in 0..2^64-1
CostInRange(c) ==
    IF Len(c) <= 4 THEN SignedValue(c, Len(c)) >= 0
    ELSE c[1] < 128 /\ Len(c) - LeadingZeros(c) <= 8

C9_Cost ==
    (DoneCondition /\ CostLeafRead(buf)) =>
        LET c == CostLeaf(buf)
        IN /\ (/\ CostInRange(c)
               /\ Len(Inner(buf)) = 2
               /\ TypeOfId(Tokens(buf)[1].tag) \notin {"ThresholdType", "PrefixType"})
                 => IsOk(result)
           /\ Len(c) <= 4 =>
                IF SignedValue(c, Len(c)) < 0 THEN result = CostError
                ELSE /\ result # CostError
                     /\ IsOk(result) =>
                           /\ Len(result.val.cost) <= 4
                           /\ DigitsValue(result.val.cost, Len(result.val.cost))
                                 = SignedValue(c, Len(c))
           /\ Len(c) > 4 =>
                IF c[1] >= 128 \/ Len(c) - LeadingZeros(c) > 8 THEN result = CostError
                ELSE /\ result # CostError
                     /\ IsOk(result) =>
                           result.val.cost = SubSeq(c, LeadingZeros(c) + 1, Len(c))

\* the largest cost: 2^64 - 1 in nine bytes
C9_Witness ==
    /\ DoneCondition
    /\ CostLeafRead(buf)
    /\ CostLeaf(buf) = <<0>> \o Repeat(255, 8)
    /\ IsOk(result)
    /\ result.val.cost = Repeat(255, 8)

(***************************************************************************)
(* The fingerprints the codec is given.                                    *)
(***************************************************************************)
ConditionTypes ==
    {"PreimageType", "PrefixType", "ThresholdType", "Secp256k1Type",
     "Secp256k1HashType", "EvalType", "AnonType"}

Fingerprints ==
    {Repeat(x, n) : x \in {0, 255}, n \in 0..MaxFpLen}
        \cup {[i \in 1..n |-> i] : n \in 0..MaxFpLen}

InitFingerprint ==
    /\ buf \in Fingerprints
    /\ cond_type \in ConditionTypes
    /\ flags = 0
    /\ result = NoResult
    /\ pc = "start"

\* pad_fingerprint(buf, cond_type)
PadFingerprint ==
    /\ pc = "start"
    /\ result' = Ok(pad_fingerprint(buf, cond_type))
    /\ pc' = "pad"
    /\ UNCHANGED <<buf, flags, cond_type>>

\* shrink_fingerprint(buf, cond_type)
ShrinkFingerprint ==
    /\ pc = "start"
    /\ result' = shrink_fingerprint(buf, cond_type)
    /\ pc' = "shrink"
    /\ UNCHANGED <<buf, flags, cond_type>>

\* pad_fingerprint of what shrink_fingerprint returned
PadShrunk ==
    /\ pc = "shrink"
    /\ IsOk(result)
    /\ result' = Ok(pad_fingerprint(result.val, cond_type))
    /\ pc' = "pad_shrink"
    /\ UNCHANGED <<buf, flags, cond_type>>

NextFingerprint == PadFingerprint \/ ShrinkFingerprint \/ PadShrunk

SpecFingerprint == InitFingerprint /\ [][NextFingerprint]_vars

(***************************************************************************)
(* C10.  Round trip: for every type t and every fingerprint f of t's       *)
(* canonical width (20 bytes for Secp256k1Hash, 32 for every other type),  *)
(* pad_fingerprint(shrink_fingerprint(f, t), t) = pad_fingerprint(f, t).   *)
(* pad_fingerprint right-pads with zero bytes to 32 only a Secp256k1Hash   *)
(* input shorter than 32 and returns every other input unchanged.          *)
(***************************************************************************)
Canonical(f, t) == Len(f) = FixedWidth(t)

C10_RoundTrip ==
    /\ (pc = "shrink" /\ Canonical(buf, cond_type)) => IsOk(result)
    /\ (pc = "pad_shrink" /\ Canonical(buf, cond_type))
          => result = Ok(pad_fingerprint(buf, cond_type))
    /\ pc = "pad" => result = Ok(PaddedWire(buf, cond_type))

\* a Secp256k1Hash fingerprint of 20 bytes, shrunk and padded to 32
C10_Witness ==
    /\ pc = "pad_shrink"
    /\ cond_type = "Secp256k1HashType"
    /\ Len(buf) = 20
    /\ Len(result.val) = 32
    /\ SubSeq(result.val, 1, 20) = buf

====
